---------------------------- MODULE Spec2Model ----------------------------
(***************************************************************************)
(* Model of custom_components/mosenergosbyt/sensor.py:                     *)
(*   - the reconciliation cycle _entity_updater (lines 79-223),            *)
(*   - the push / calculate service handlers (lines 226-430).              *)
(* An action is the code that runs between two suspension points (await).  *)
(***************************************************************************)
EXTENDS Integers, Sequences, FiniteSets, TLC

VARIABLES
    cfg,        \* user_cfg: CONF_ACCOUNTS (meter filter) and CONF_INVOICES
    api,        \* the API object: is_logged_in, age of logged_in_at
    remote,     \* what the provider reports: listing, meters, last invoice
    reg,        \* hass.data[DATA_ENTITIES]: entry id -> account code -> account entity
    host,       \* entities the host holds (async_add_entities minus async_remove)
    cyc,        \* the running _entity_updater call: position, locals, and its log
    updaters,   \* hass.data[DATA_UPDATERS]: the entries with a refresh handle
    call,       \* the running push / calculate service call, and its log
    setup,      \* async_setup_entry of the entry: position, result, what it installed
    other,      \* a second _entity_updater call of the entry, overlapping `cyc`
    ind         \* an application of _get_real_indications: inputs and result

vars == <<cfg, api, remote, reg, host, cyc, updaters, call, setup, other, ind>>

cycleVars   == <<cfg, api, remote, cyc>>
serviceVars == <<updaters, call>>
sideVars    == <<setup, other>>

----------------------------------------------------------------------------
(* Universe of the model *)

Entries      == {"e1", "e2"}
AccountCodes == {"A1", "A2"}
MeterCodes   == {"M1", "M2", "M3"}

\* Invoice ids are 1..MaxInvoice; NoInvoice stands for None.
MaxInvoice == 2
InvoiceIds == 1..MaxInvoice
NoInvoice  == 0

\* The managed account whose reconciliation cycle Spec runs.
CycleEntry == "e1"

\* CONF_LOGIN_TIMEOUT, in ticks of the model's clock.
LoginTimeout == 1

EmptyMap == [x \in {} |-> x]

Key(k, a, m) == [k |-> k, a |-> a, m |-> m]
AccountKey(a)  == Key("account", a, "-")
MeterKey(a, m) == Key("meter", a, m)
InvoiceKey(a)  == Key("invoice", a, "-")

----------------------------------------------------------------------------
(* Configuration values: a three-state value is absent, a boolean or a list *)

Absent     == [kind |-> "absent", b |-> FALSE, l |-> {}]
BoolVal(b) == [kind |-> "bool", b |-> b, l |-> {}]
ListVal(l) == [kind |-> "list", b |-> FALSE, l |-> l]

\* Python truthiness of a configured value (`X in user_cfg and user_cfg[X]`).
Truthy(v) == (v.kind = "bool" /\ v.b) \/ (v.kind = "list" /\ v.l # {})

\* CONF_ACCOUNTS: absent, or a mapping account code -> True | list of meter codes.
NoAccountsCfg == [present |-> FALSE, map |-> EmptyMap]
AccountsCfg(map) == [present |-> TRUE, map |-> map]

AccountCfgs ==
    { NoAccountsCfg,
      AccountsCfg([a \in {"A1", "A2"} |->
                     IF a = "A1" THEN BoolVal(TRUE) ELSE ListVal({"M1"})]),
      AccountsCfg([a \in {"A1"} |-> ListVal({"M2", "M3"})]) }

InvoiceCfgs ==
    { Absent, BoolVal(TRUE), BoolVal(FALSE), ListVal({"A1"}), ListVal({}) }

Configs ==
    { [accounts |-> NoAccountsCfg, invoices |-> i] : i \in InvoiceCfgs }
    \cup { [accounts |-> a, invoices |-> Absent] : a \in AccountCfgs }

----------------------------------------------------------------------------
(* Provider data *)

\* The listings, the meter sets and the last invoices the provider may report.
Listings == { <<"A1", "A2">>, <<"A1">> }

MeterSets(a) == IF a = "A1" THEN { {"M1", "M2"}, {"M2", "M3"} } ELSE { {"M1"} }

InvoiceVals(a) == IF a = "A1" THEN InvoiceIds ELSE { NoInvoice }

Remotes ==
    { r \in [listing : Listings,
             meters  : [AccountCodes -> SUBSET MeterCodes],
             invoice : [AccountCodes -> InvoiceIds \cup {NoInvoice}]] :
        \A a \in AccountCodes :
            r.meters[a] \in MeterSets(a) /\ r.invoice[a] \in InvoiceVals(a) }

Remote0 ==
    [ listing |-> <<"A1", "A2">>,
      meters  |-> [a \in AccountCodes |-> IF a = "A1" THEN {"M1", "M2"} ELSE {"M1"}],
      invoice |-> [a \in AccountCodes |-> IF a = "A1" THEN 1 ELSE NoInvoice] ]

----------------------------------------------------------------------------
(* Entities *)

\* The value None among indications.
None == -1

\* The provider's meter objects.  Which capabilities a meter has
\* (save_indications, get_charge_indications) and its indications are the
\* provider's; here they go by the meter code.
SubmitCodes == {"M1", "M3"}
CalcCodes   == {"M1"}

MeterObject(a, m) ==
    [ meter_code |-> m,
      account_code |-> a,
      last_indications |-> IF m = "M1" THEN <<1, None>> ELSE <<1>>,
      submitted_indications |-> IF m = "M1" THEN <<None, None>> ELSE <<2>> ]

\* MESMeterSensor.__init__
MESMeterSensor(a, m) == [meter |-> MeterObject(a, m)]

\* MESInvoiceSensor.__init__: `shown` is the invoice_id of _attributes
\* (None until async_update has run).
MESInvoiceSensor(id) == [some |-> TRUE, invoice_id |-> id, shown |-> NoInvoice]

NoInvoiceEntity == [some |-> FALSE, invoice_id |-> NoInvoice, shown |-> NoInvoice]

\* MESAccountSensor.__init__: meter_entities and invoice_entity start as None.
MESAccountSensor(a) ==
    [ meter_entities |-> [some |-> FALSE, ents |-> EmptyMap],
      invoice_entity |-> NoInvoiceEntity ]

\* MESInvoiceSensor.async_update: the attributes are recomputed from the
\* backing invoice.
InvoiceAsyncUpdate(ie) == [ie EXCEPT !.shown = ie.invoice_id]

NoRegistry == [present |-> FALSE, accts |-> EmptyMap]

----------------------------------------------------------------------------
(* The cycle's locals and its log *)

NoResult == [kind |-> "none", t |-> <<0, 0, 0>>]
Failed   == [kind |-> "false", t |-> <<0, 0, 0>>]
Raised(exc) == [kind |-> exc, t |-> <<0, 0, 0>>]
Triple(a, m, i) == [kind |-> "triple", t |-> <<a, m, i>>]

IdleCycle ==
    [ pc           |-> "idle",
      entry        |-> CycleEntry,
      accounts     |-> <<>>,       \* the listing, in the provider's order
      idx          |-> 0,          \* position of the loop in `accounts`
      new_accounts |-> EmptyMap,   \* account code -> new account entity
      new_meters   |-> EmptyMap,   \* meter code -> the new meter entity
      new_invoices |-> EmptyMap,   \* invoice id -> the new invoice entity
      tasks        |-> <<>>,
      result       |-> NoResult,
      \* log of what this call did
      calls        |-> <<>>,       \* provider session calls, in order
      mtrTried     |-> {},         \* accounts whose meters were fetched
      mtrFailed    |-> {},
      mtrHandled   |-> {},         \* accounts whose meter diff ran to its end
      invTried     |-> {},
      invFailed    |-> {},
      considered   |-> EmptyMap,   \* account -> meter codes left by the filter
      created      |-> {},         \* entities constructed
      retired      |-> {},         \* entities whose removal was requested
      replaced     |-> {},         \* entities whose backing object was replaced
      republished  |-> {},         \* async_schedule_update_ha_state(force_refresh)
      finished     |-> {},         \* positions in `tasks` of the tasks that have finished
      refreshFailed |-> {},        \* new entities whose first refresh failed
      added        |-> <<>>,       \* batches given to async_add_entities
      dup          |-> {},         \* entities given to a host that holds one for the same code
      regAtStart   |-> NoRegistry,
      hostAtStart  |-> {},
      apiAtStart   |-> [is_logged_in |-> FALSE, age |-> 0],
      prevDone     |-> FALSE,      \* the previous call completed, nothing changed since
      prevClean    |-> FALSE ]     \* ... and none of its fetches failed


\* async_setup_entry has not been called for the entry
NoSetup ==
    [ pc         |-> "none",       \* none, first_cycle, returned
      result     |-> "none",       \* what async_setup_entry returned or raised
      first      |-> NoResult,     \* the result of its first cycle
      services   |-> FALSE,        \* the push / calculate services are registered
      lastFailed |-> FALSE ]       \* the last scheduled cycle returned False

----------------------------------------------------------------------------
(* Helpers *)

RECURSIVE SetToSeq(_)
SetToSeq(S) ==
    IF S = {} THEN <<>>
    ELSE LET x == CHOOSE y \in S : TRUE IN <<x>> \o SetToSeq(S \ {x})

\* dict.update / item assignment: the entries of `new` override those of `old`.
Updated(old, new) ==
    [x \in DOMAIN old \cup DOMAIN new |-> IF x \in DOMAIN new THEN new[x] ELSE old[x]]

Task(kind, key) == [kind |-> kind, key |-> key]

\* The account entity the loop works on: a new one is only in new_accounts
\* until the end of the cycle, a known one is in the registry.
CurEntity(s, a) ==
    IF a \in DOMAIN s.cyc.new_accounts THEN s.cyc.new_accounts[a] ELSE s.reg.accts[a]

SetEntity(s, a, ent) ==
    IF a \in DOMAIN s.cyc.new_accounts
    THEN [s EXCEPT !.cyc.new_accounts[a] = ent]
    ELSE [s EXCEPT !.reg.accts[a] = ent]

CurAccount(c) == c.accounts[c.idx]

----------------------------------------------------------------------------
(* _entity_updater, piece by piece.  `s` holds the registry of the entry,  *)
(* the host's entities and the call's locals.                              *)

\* FailCycle with the registry of the entry created before the fetch
FailCycle_CreatesRegistry(s) ==
    [s EXCEPT !.reg.present = TRUE, !.cyc.pc = "done", !.cyc.result = Failed]

\* `return False` (lines 98 and 114)
FailCycle(s) == [s EXCEPT !.cyc.pc = "done", !.cyc.result = Failed]

\* an exception other than MosenergosbytException leaves the call.  The
\* removals already scheduled are tasks of the host (hass.async_create_task,
\* line 156) and run all the same; the first refreshes are coroutines that
\* only asyncio.wait (line 205) would have started.
RaiseFrom(s, exc) ==
    LET removed == { s.cyc.tasks[i].key : i \in { j \in 1..Len(s.cyc.tasks) :
                                                   s.cyc.tasks[j].kind = "remove" } }
    IN [s EXCEPT !.host = @ \ removed, !.cyc.pc = "done", !.cyc.result = Raised(exc)]

\* lines 207-223: the three batches, the merge and the returned triple
Finalize(s) ==
    LET c  == s.cyc
        b1 == { AccountKey(a) : a \in DOMAIN c.new_accounts }
        b2 == { c.new_meters[m] : m \in DOMAIN c.new_meters }
        b3 == { c.new_invoices[i] : i \in DOMAIN c.new_invoices }
        batches == SelectSeq(<<b1, b2, b3>>, LAMBDA b : b # {})
    IN [s EXCEPT
          !.host = s.host \cup b1 \cup b2 \cup b3,
          !.reg.accts = Updated(s.reg.accts, c.new_accounts),
          !.cyc.added = batches,
          !.cyc.dup = (b1 \cup b2 \cup b3) \cap s.host,
          !.cyc.pc = "done",
          !.cyc.result = Triple(Cardinality(DOMAIN c.new_accounts),
                                Cardinality(DOMAIN c.new_meters),
                                Cardinality(DOMAIN c.new_invoices))]

\* lines 204-205: `if tasks: await asyncio.wait(tasks)`
EndLoop(s) ==
    IF s.cyc.tasks # <<>> THEN [s EXCEPT !.cyc.pc = "wait"] ELSE Finalize(s)

\* lines 126-140: the loop body up to `await account.get_meters()`
BeginAccount(s, i) ==
    LET a == s.cyc.accounts[i]
        s1 == [s EXCEPT !.cyc.idx = i, !.cyc.pc = "get_meters"]
    IN IF a \in DOMAIN s.reg.accts
       THEN [s1 EXCEPT
               !.cyc.replaced = @ \cup {AccountKey(a)},
               !.cyc.republished = @ \cup {AccountKey(a)}]
       ELSE [s1 EXCEPT
               !.cyc.new_accounts = Updated(@, [x \in {a} |-> MESAccountSensor(a)]),
               !.cyc.created = @ \cup {AccountKey(a)},
               !.cyc.tasks = Append(@, Task("update", AccountKey(a)))]

\* the `for` statement: the next account, or the code after the loop
NextAccount(s) ==
    IF s.cyc.idx < Len(s.cyc.accounts) THEN BeginAccount(s, s.cyc.idx + 1) ELSE EndLoop(s)

\* lines 101-102
use_meter_filter   == cfg.accounts.present /\ DOMAIN cfg.accounts.map # {}
use_invoice_filter == Truthy(cfg.invoices)

\* lines 176-184: TRUE when the loop `continue`s before the invoice fetch
InvoiceSkipped(a) ==
    /\ use_invoice_filter
    /\ \/ (cfg.invoices.kind = "bool" /\ ~cfg.invoices.b)
       \/ (~(cfg.invoices.kind = "bool" /\ cfg.invoices.b) /\ a \notin cfg.invoices.l)

\* lines 176-188: the invoice filter, then `await account.get_last_invoice()`
InvoiceGate(s) ==
    IF InvoiceSkipped(CurAccount(s.cyc))
    THEN NextAccount(s)
    ELSE [s EXCEPT !.cyc.pc = "get_last_invoice"]

\* lines 142-146.  `{k: v for k, v in meters if k in account_filter}` iterates
\* the keys of the dict: each key, a meter code (a string of other than two
\* characters), is unpacked into k, v, which raises ValueError at the first
\* key.  A code absent from the mapping raises KeyError at line 143.
FilterMeters(a, fetched) ==
    IF ~use_meter_filter THEN [exc |-> "none", meters |-> fetched]
    ELSE IF a \notin DOMAIN cfg.accounts.map THEN [exc |-> "KeyError", meters |-> {}]
    ELSE LET account_filter == cfg.accounts.map[a]
         IN IF account_filter.kind = "bool" /\ account_filter.b
            THEN [exc |-> "none", meters |-> fetched]
            ELSE IF fetched = {} THEN [exc |-> "none", meters |-> {}]
            ELSE [exc |-> "ValueError", meters |-> {}]

\* DiffMeters without `del meter_entities[meter_code]`
DiffMeters_KeepsGone(s, meters) ==
    LET a       == CurAccount(s.cyc)
        ent     == CurEntity(s, a)
        old     == IF ent.meter_entities.some THEN ent.meter_entities.ents ELSE EmptyMap
        gone    == DOMAIN old \ meters
        kept    == DOMAIN old \cap meters
        fresh   == meters \ DOMAIN old
        ents    == [m \in DOMAIN old \cup meters |->
                      IF m \in kept THEN [old[m] EXCEPT !.meter = MeterObject(a, m)]
                      ELSE IF m \in gone THEN old[m]
                      ELSE MESMeterSensor(a, m)]
        s1      == SetEntity(s, a, [ent EXCEPT !.meter_entities = [some |-> TRUE, ents |-> ents]])
    IN [s1 EXCEPT
          !.cyc.tasks = @ \o [i \in 1..Cardinality(gone) |->
                                 Task("remove", MeterKey(a, SetToSeq(gone)[i]))]
                          \o [i \in 1..Cardinality(fresh) |->
                                 Task("update", MeterKey(a, SetToSeq(fresh)[i]))],
          !.cyc.new_meters = Updated(@, [m \in fresh |-> MeterKey(a, m)]),
          !.cyc.retired = @ \cup { MeterKey(a, m) : m \in gone },
          !.cyc.created = @ \cup { MeterKey(a, m) : m \in fresh },
          !.cyc.replaced = @ \cup { MeterKey(a, m) : m \in kept },
          !.cyc.republished = @ \cup { MeterKey(a, m) : m \in kept },
          !.cyc.mtrHandled = @ \cup {a}]

\* lines 148-170: the diff of the account's meter entities against `meters`
DiffMeters(s, meters) ==
    LET a       == CurAccount(s.cyc)
        ent     == CurEntity(s, a)
        old     == IF ent.meter_entities.some THEN ent.meter_entities.ents ELSE EmptyMap
        gone    == DOMAIN old \ meters
        kept    == DOMAIN old \cap meters
        fresh   == meters \ DOMAIN old
        ents    == [m \in meters |->
                      IF m \in kept
                      THEN [old[m] EXCEPT !.meter = MeterObject(a, m)]
                      ELSE MESMeterSensor(a, m)]
        s1      == SetEntity(s, a, [ent EXCEPT !.meter_entities = [some |-> TRUE, ents |-> ents]])
    IN [s1 EXCEPT
          !.cyc.tasks = @ \o [i \in 1..Cardinality(gone) |->
                                 Task("remove", MeterKey(a, SetToSeq(gone)[i]))]
                          \o [i \in 1..Cardinality(fresh) |->
                                 Task("update", MeterKey(a, SetToSeq(fresh)[i]))],
          !.cyc.new_meters = Updated(@, [m \in fresh |-> MeterKey(a, m)]),
          !.cyc.retired = @ \cup { MeterKey(a, m) : m \in gone },
          !.cyc.created = @ \cup { MeterKey(a, m) : m \in fresh },
          !.cyc.replaced = @ \cup { MeterKey(a, m) : m \in kept },
          !.cyc.republished = @ \cup { MeterKey(a, m) : m \in kept },
          !.cyc.mtrHandled = @ \cup {a}]

\* MeterFetchFailed taking the failed fetch for an empty meter list
MeterFetchFailed_DropsMeters(s) ==
    InvoiceGate(DiffMeters([s EXCEPT !.cyc.mtrTried = @ \cup {CurAccount(s.cyc)},
                                     !.cyc.mtrFailed = @ \cup {CurAccount(s.cyc)}],
                           {}))

\* lines 172-174: the except clause of the meter fetch
MeterFetchFailed(s) ==
    InvoiceGate([s EXCEPT !.cyc.mtrTried = @ \cup {CurAccount(s.cyc)},
                          !.cyc.mtrFailed = @ \cup {CurAccount(s.cyc)}])

\* lines 140-184 when get_meters() returned `fetched`
MeterFetched(s, fetched) ==
    LET a  == CurAccount(s.cyc)
        f  == FilterMeters(a, fetched)
        s1 == [s EXCEPT !.cyc.mtrTried = @ \cup {a}]
    IN IF f.exc # "none"
       THEN RaiseFrom(s1, f.exc)
       ELSE InvoiceGate(DiffMeters(
                [s1 EXCEPT !.cyc.considered = Updated(@, [x \in {a} |-> f.meters])],
                f.meters))

\* HandleInvoice without the test for a held invoice entity
HandleInvoice_AlwaysNew(s, invoice) ==
    LET a   == CurAccount(s.cyc)
        ent == CurEntity(s, a)
    IN IF invoice = NoInvoice THEN s
       ELSE [SetEntity(s, a, [ent EXCEPT !.invoice_entity = MESInvoiceSensor(invoice)])
               EXCEPT
               !.cyc.new_invoices = Updated(@, [x \in {invoice} |-> InvoiceKey(a)]),
               !.cyc.created = @ \cup {InvoiceKey(a)},
               !.cyc.tasks = Append(@, Task("update", InvoiceKey(a)))]

\* lines 190-200: `invoice` is the fetched invoice's id, NoInvoice for None
HandleInvoice(s, invoice) ==
    LET a   == CurAccount(s.cyc)
        ent == CurEntity(s, a)
    IN IF invoice = NoInvoice THEN s
       ELSE IF ~ent.invoice_entity.some
       THEN [SetEntity(s, a, [ent EXCEPT !.invoice_entity = MESInvoiceSensor(invoice)])
               EXCEPT
               !.cyc.new_invoices = Updated(@, [x \in {invoice} |-> InvoiceKey(a)]),
               !.cyc.created = @ \cup {InvoiceKey(a)},
               !.cyc.tasks = Append(@, Task("update", InvoiceKey(a)))]
       ELSE IF ent.invoice_entity.invoice_id # invoice
       THEN [SetEntity(s, a, [ent EXCEPT !.invoice_entity.invoice_id = invoice])
               EXCEPT
               !.cyc.replaced = @ \cup {InvoiceKey(a)},
               !.cyc.republished = @ \cup {AccountKey(a)}]
       ELSE s

\* lines 186-202 when get_last_invoice() returned
InvoiceFetched(s, invoice) ==
    NextAccount(HandleInvoice([s EXCEPT !.cyc.invTried = @ \cup {CurAccount(s.cyc)}],
                              invoice))

\* lines 201-202: the except clause of the invoice fetch
InvoiceFetchFailed(s) ==
    NextAccount([s EXCEPT !.cyc.invTried = @ \cup {CurAccount(s.cyc)},
                          !.cyc.invFailed = @ \cup {CurAccount(s.cyc)}])

\* one task of `tasks` run to its end: the first refresh of a new invoice
\* entity (MESInvoiceSensor.async_update), the removal of a meter entity
RunTask(s, t) ==
    IF t.kind = "remove" THEN [s EXCEPT !.host = @ \ {t.key}]
    ELSE IF t.key.k = "invoice"
    THEN LET ent == CurEntity(s, t.key.a)
         IN SetEntity(s, t.key.a,
                      [ent EXCEPT !.invoice_entity = InvoiceAsyncUpdate(@)])
    ELSE s

RECURSIVE RunTasks(_, _)
RunTasks(s, ts) ==
    IF ts = <<>> THEN s ELSE RunTasks(RunTask(s, Head(ts)), Tail(ts))

\* lines 205-223: asyncio.wait returns, then the rest of the function
AfterWait(s) ==
    Finalize(RunTasks([s EXCEPT !.cyc.finished = 1..Len(s.cyc.tasks)], s.cyc.tasks))

\* lines 116-126: the registry of the entry, then the loop
AccountsFetched(s, listing) ==
    LET s1 == [s EXCEPT !.reg.present = TRUE, !.cyc.accounts = listing,
                        \* the guard is behind: its snapshot is dropped
                        !.cyc.apiAtStart = IdleCycle.apiAtStart]
    IN IF listing = <<>> THEN EndLoop(s1) ELSE BeginAccount(s1, 1)

----------------------------------------------------------------------------
(* Actions of the reconciliation cycle *)

State == [reg |-> reg[cyc.entry], host |-> host, cyc |-> cyc]

Commit(s) ==
    /\ reg' = [reg EXCEPT ![cyc.entry] = s.reg]
    /\ host' = s.host
    /\ cyc' = s.cyc

\* logged_in_at + CONF_LOGIN_TIMEOUT <= utcnow()  (line 91)
Expired == api.age >= LoginTimeout

\* lines 81-94, up to the first await
BeginCycle(c) ==
    [c EXCEPT
       !.pc = IF ~api.is_logged_in THEN "login"
              ELSE IF Expired THEN "logout" ELSE "get_accounts",
       !.regAtStart = reg[CycleEntry],
       !.hostAtStart = host,
       !.apiAtStart = api]

StartCycle ==
    /\ cyc.pc = "idle"
    /\ cyc' = BeginCycle(cyc)
    /\ UNCHANGED <<cfg, api, remote, reg, host, serviceVars, sideVars, ind>>

\* the call has returned (or raised); only what the next call is compared
\* with is kept of its log
Returned(c) ==
    [IdleCycle EXCEPT
       !.prevDone = c.result.kind = "triple",
       !.prevClean = /\ c.result.kind = "triple"
                     /\ c.mtrFailed = {}
                     /\ c.invFailed = {}]

Return ==
    /\ cyc.pc = "done"
    /\ cyc' = Returned(cyc)
    /\ UNCHANGED <<cfg, api, remote, reg, host, serviceVars, sideVars, ind>>

LogoutOk ==
    /\ cyc.pc = "logout"
    /\ api' = [api EXCEPT !.is_logged_in = FALSE]
    /\ cyc' = [cyc EXCEPT !.pc = "login", !.calls = Append(@, "logout")]
    /\ UNCHANGED <<cfg, remote, reg, host, serviceVars, sideVars, ind>>

LogoutFail ==
    /\ cyc.pc = "logout"
    /\ Commit(FailCycle([State EXCEPT !.cyc.calls = Append(@, "logout")]))
    /\ UNCHANGED <<cfg, api, remote, serviceVars, sideVars, ind>>

LoginOk ==
    /\ cyc.pc = "login"
    /\ api' = [is_logged_in |-> TRUE, age |-> 0]
    /\ cyc' = [cyc EXCEPT !.pc = "get_accounts", !.calls = Append(@, "login")]
    /\ UNCHANGED <<cfg, remote, reg, host, serviceVars, sideVars, ind>>

LoginFail ==
    /\ cyc.pc = "login"
    /\ Commit(FailCycle([State EXCEPT !.cyc.calls = Append(@, "login")]))
    /\ UNCHANGED <<cfg, api, remote, serviceVars, sideVars, ind>>

GetAccountsOk ==
    /\ cyc.pc = "get_accounts"
    /\ Commit(AccountsFetched(State, remote.listing))
    /\ UNCHANGED <<cfg, api, remote, serviceVars, sideVars, ind>>

GetAccountsFail ==
    /\ cyc.pc = "get_accounts"
    /\ Commit(FailCycle(State))
    /\ UNCHANGED <<cfg, api, remote, serviceVars, sideVars, ind>>

GetMetersOk ==
    /\ cyc.pc = "get_meters"
    /\ Commit(MeterFetched(State, remote.meters[CurAccount(cyc)]))
    /\ UNCHANGED <<cfg, api, remote, serviceVars, sideVars, ind>>

GetMetersFail ==
    /\ cyc.pc = "get_meters"
    /\ Commit(MeterFetchFailed(State))
    /\ UNCHANGED <<cfg, api, remote, serviceVars, sideVars, ind>>

GetInvoiceOk ==
    /\ cyc.pc = "get_last_invoice"
    /\ Commit(InvoiceFetched(State, remote.invoice[CurAccount(cyc)]))
    /\ UNCHANGED <<cfg, api, remote, serviceVars, sideVars, ind>>

GetInvoiceFail ==
    /\ cyc.pc = "get_last_invoice"
    /\ Commit(InvoiceFetchFailed(State))
    /\ UNCHANGED <<cfg, api, remote, serviceVars, sideVars, ind>>

WaitDone ==
    /\ cyc.pc = "wait"
    /\ Commit(AfterWait(State))
    /\ UNCHANGED <<cfg, api, remote, serviceVars, sideVars, ind>>

----------------------------------------------------------------------------
(* Environment: the clock and the provider's data, between two cycles *)

Tick ==
    /\ cyc.pc = "idle"
    /\ api.is_logged_in
    /\ api.age <= LoginTimeout
    /\ api' = [api EXCEPT !.age = @ + 1]
    /\ UNCHANGED <<cfg, remote, reg, host, cyc, serviceVars, sideVars, ind>>

RemoteChange ==
    /\ cyc.pc = "idle"
    /\ \E r \in Remotes \ {remote} : remote' = r
    /\ cyc' = [cyc EXCEPT !.prevDone = FALSE, !.prevClean = FALSE]
    /\ UNCHANGED <<cfg, api, reg, host, serviceVars, sideVars, ind>>

----------------------------------------------------------------------------
(* The indication service: async_register_services, lines 226-430 *)

\* DEFAULT_MAX_INDICATIONS
DEFAULT_MAX_INDICATIONS == 3

\* Largest indication value of the model.
MaxVal == 1

\* An `indications` payload accepted by INDICATIONS_SCHEMA: a list of
\* values, or a mapping position -> value, kept as its items in the order
\* of the dict.
SeqPayload(vals)  == [shape |-> "seq", items |-> vals]
MapPayload(pairs) == [shape |-> "map", items |-> pairs]

\* What iterating the payload yields: the values of a list, the keys of a dict.
Iterate(payload) ==
    IF payload.shape = "seq" THEN payload.items
    ELSE [i \in 1..Len(payload.items) |-> payload.items[i][1]]

Min(a, b) == IF a <= b THEN a ELSE b

\* Python's `x or y` on indications: x unless it is None or 0.
Or(x, y) == IF x # None /\ x # 0 THEN x ELSE y

\* _get_real_indications (lines 254-265): zip stops at the shortest of the
\* three sequences.
GetRealIndications(meter, data) ==
    IF data.incremental
    THEN LET a == Iterate(data.indications)
             l == meter.last_indications
             s == meter.submitted_indications
             n == Min(Len(a), Min(Len(l), Len(s)))
         IN SeqPayload([i \in 1..n |-> a[i] + Or(Or(s[i], l[i]), 0)])
    ELSE data.indications

NoKey == Key("-", "-", "-")

\* Entity.entity_id: set by the host when the entity is added to it.
EntityId(key) == IF key \in host THEN key ELSE NoKey

\* the fields of the event a call fires (event_data)
EventFields(op) ==
    IF op = "push" THEN {"entity_id", "meter_code", "indications", "comment"}
    ELSE {"entity_id", "meter_code", "indications", "period", "charged",
          "indications_dict", "comment"}

\* ATTR_NOTIFICATION: a boolean, or notification fields whose templates
\* name the placeholders `uses`.
NotifBool(b)      == [kind |-> "bool", b |-> b, uses |-> {}]
NotifFields(uses) == [kind |-> "fields", b |-> FALSE, uses |-> uses]

Notifications ==
    { NotifBool(FALSE), NotifBool(TRUE),
      NotifFields({"meter_code"}), NotifFields({"charged"}), NotifFields({"foo"}) }

IdleCall ==
    [ pc          |-> "idle",
      op          |-> "none",
      data        |-> [by |-> "-", id |-> NoKey, code |-> "-",
                       indications |-> SeqPayload(<<>>), incremental |-> FALSE,
                       ignore_period |-> FALSE, notification |-> NotifBool(FALSE)],
      entry       |-> "-",          \* entry_id returned by _find_meter_entity
      target      |-> NoKey,        \* the meter entity it returned
      indications |-> SeqPayload(<<>>),
      outcome     |-> "none",
      \* log of what this call did
      accepted    |-> FALSE,        \* the provider call returned normally
      sent        |-> <<>>,         \* calls issued to the provider
      events      |-> <<>>,         \* hass.bus.async_fire
      notes       |-> 0,            \* persistent notifications dispatched
      refreshes   |-> <<>>,         \* entries whose update_call was scheduled
      regAtCall   |-> [e \in Entries |-> NoRegistry],
      hostAtCall  |-> {} ]

\* no application of _get_real_indications under way
NoInd ==
    [ pc |-> "none",
      meter |-> [last_indications |-> <<>>, submitted_indications |-> <<>>],
      data |-> [indications |-> SeqPayload(<<>>), incremental |-> FALSE],
      out |-> SeqPayload(<<>>) ]

\* the registered meter entities, as (entry, account, meter code)
RegisteredMeters ==
    { x \in [entry : Entries, a : AccountCodes, m : MeterCodes] :
        /\ x.a \in DOMAIN reg[x.entry].accts
        /\ reg[x.entry].accts[x.a].meter_entities.some
        /\ x.m \in DOMAIN reg[x.entry].accts[x.a].meter_entities.ents }

MeterOf(x) == reg[x.entry].accts[x.a].meter_entities.ents[x.m].meter

\* _check_entity_id / _check_meter_code (lines 230-234)
Checker(data, x) ==
    IF data.by = "entity_id"
    THEN EntityId(MeterKey(x.a, x.m)) = data.id
    ELSE MeterOf(x).meter_code = data.code

\* _find_meter_entity (lines 236-252).  The scan follows the order of the
\* dicts, which is the order of insertion: any registered meter that matches
\* may be the first one met.  `account_sensor.meter_entities.values()`
\* raises AttributeError on an account whose meter_entities is None, when
\* the scan reaches it before a match.
FindMeterEntity(data) ==
    LET matches == { x \in RegisteredMeters : Checker(data, x) }
        broken  == \E e \in Entries : \E a \in DOMAIN reg[e].accts :
                       ~reg[e].accts[a].meter_entities.some
    IN { [kind |-> "found", x |-> x] : x \in matches }
       \cup (IF broken
             THEN { [kind |-> "AttributeError", x |-> [entry |-> "-", a |-> "-", m |-> "-"]] }
             ELSE {})
       \cup (IF matches = {} /\ ~broken
             THEN { [kind |-> "none", x |-> [entry |-> "-", a |-> "-", m |-> "-"]] }
             ELSE {})

\* hasattr(meter, 'save_indications') / hasattr(meter, 'get_charge_indications')
HasCapability(meter, op) ==
    IF op = "push" THEN meter.meter_code \in SubmitCodes ELSE meter.meter_code \in CalcCodes

EndCall(c, outcome) == [c EXCEPT !.pc = "done", !.outcome = outcome]

\* lines 268-283 (push) and 346-362 (calculate): up to the await of the
\* provider call
BeginCall(op, data, found) ==
    LET c == [IdleCall EXCEPT !.op = op, !.data = data,
                              !.regAtCall = reg, !.hostAtCall = host]
    IN IF found.kind = "AttributeError" THEN EndCall(c, "AttributeError")
       ELSE IF found.kind = "none" THEN EndCall(c, "not_found")
       ELSE IF ~HasCapability(MeterOf(found.x), op) THEN EndCall(c, "unsupported")
       ELSE LET indications == GetRealIndications(MeterOf(found.x), data)
            IN [c EXCEPT
                  !.pc = "awaiting",
                  !.entry = found.x.entry,
                  !.target = MeterKey(found.x.a, found.x.m),
                  !.indications = indications,
                  !.sent = Append(@, [op |-> op,
                                      meter_code |-> found.x.m,
                                      indications |-> indications,
                                      ignore_period_check |-> data.ignore_period,
                                      ignore_indications_check |-> FALSE])]

\* lines 289-300 and 370-384: the event
FireEvent(c) ==
    [c EXCEPT !.events = Append(@, [type |-> c.op,
                                    entity_id |-> EntityId(c.target),
                                    meter_code |-> c.target.m,
                                    indications |-> c.indications])]

\* lines 304-328 and 386-408: the notification.  `value.format(**event_data)`
\* raises KeyError for a placeholder that is no field of the event.
Notify(c) ==
    LET n == c.data.notification
    IN IF n.kind = "bool" THEN (IF n.b THEN [c EXCEPT !.notes = @ + 1] ELSE c)
       ELSE IF n.uses \subseteq EventFields(c.op) THEN [c EXCEPT !.notes = @ + 1]
       ELSE EndCall(c, "KeyError")

\* lines 330-335: the refresh of the entry the meter was found in
RequestRefresh(c) ==
    IF c.entry \in updaters THEN [c EXCEPT !.refreshes = Append(@, c.entry)] ELSE c

\* lines 289-335: the provider accepted the submission
PushSaved(c) ==
    LET c1 == Notify(FireEvent(c))
    IN IF c1.pc = "done" THEN c1 ELSE EndCall(RequestRefresh(c1), "ok")

\* CalcReturned with the refresh of the entry requested, as the push does
CalcReturned_Refreshes(c) ==
    LET c1 == Notify(FireEvent(c))
    IN IF c1.pc = "done" THEN c1 ELSE EndCall(RequestRefresh(c1), "ok")

\* lines 368-408: the provider returned the calculation
CalcReturned(c) ==
    LET c1 == Notify(FireEvent(c))
    IN IF c1.pc = "done" THEN c1 ELSE EndCall(c1, "ok")

\* ProviderRejected with the event fired before the provider call returned
ProviderRejected_EventFired(c, exc) == EndCall(FireEvent(c), exc)

\* lines 337-343 and 410-416: the except clauses
ProviderRejected(c, exc) == EndCall(c, exc)

PushIndications ==
    /\ call.pc = "idle"
    /\ \E by \in {"entity_id", "meter_code"} :
       \E id \in { MeterKey(a, m) : a \in AccountCodes, m \in {"M1", "M2"} } :
       \E code \in MeterCodes :
       \E incremental \in BOOLEAN, ignore_period \in BOOLEAN :
       \E notification \in Notifications :
          LET data == [by |-> by,
                       id |-> IF by = "entity_id" THEN id ELSE NoKey,
                       code |-> IF by = "meter_code" THEN code ELSE "-",
                       indications |-> SeqPayload(<<1, 0>>),
                       incremental |-> incremental,
                       ignore_period |-> ignore_period,
                       notification |-> notification]
          IN \E found \in FindMeterEntity(data) :
                call' = BeginCall("push", data, found)
    /\ UNCHANGED <<cycleVars, reg, host, updaters, sideVars, ind>>

CalculateIndications ==
    /\ call.pc = "idle"
    /\ \E by \in {"entity_id", "meter_code"} :
       \E id \in { MeterKey(a, m) : a \in AccountCodes, m \in {"M1", "M2"} } :
       \E code \in MeterCodes :
       \E incremental \in BOOLEAN, ignore_period \in BOOLEAN :
       \E notification \in Notifications :
          LET data == [by |-> by,
                       id |-> IF by = "entity_id" THEN id ELSE NoKey,
                       code |-> IF by = "meter_code" THEN code ELSE "-",
                       indications |-> SeqPayload(<<1, 0>>),
                       incremental |-> incremental,
                       ignore_period |-> ignore_period,
                       notification |-> notification]
          IN \E found \in FindMeterEntity(data) :
                call' = BeginCall("calculate", data, found)
    /\ UNCHANGED <<cycleVars, reg, host, updaters, sideVars, ind>>

PushAccepted ==
    /\ call.pc = "awaiting" /\ call.op = "push"
    /\ call' = PushSaved([call EXCEPT !.accepted = TRUE])
    /\ UNCHANGED <<cycleVars, reg, host, updaters, sideVars, ind>>

PushRejected ==
    /\ call.pc = "awaiting" /\ call.op = "push"
    /\ \E exc \in {"IndicationsCountException", "MosenergosbytException"} :
          call' = ProviderRejected(call, exc)
    /\ UNCHANGED <<cycleVars, reg, host, updaters, sideVars, ind>>

CalcAccepted ==
    /\ call.pc = "awaiting" /\ call.op = "calculate"
    /\ call' = CalcReturned([call EXCEPT !.accepted = TRUE])
    /\ UNCHANGED <<cycleVars, reg, host, updaters, sideVars, ind>>

CalcRejected ==
    /\ call.pc = "awaiting" /\ call.op = "calculate"
    /\ \E exc \in {"IndicationsCountException", "MosenergosbytException"} :
          call' = ProviderRejected(call, exc)
    /\ UNCHANGED <<cycleVars, reg, host, updaters, sideVars, ind>>

CallReturn ==
    /\ call.pc = "done"
    /\ call' = IdleCall
    /\ UNCHANGED <<cycleVars, reg, host, updaters, sideVars, ind>>

\* A registry as completed cycles leave it: entry e1 holds account A1, entry
\* e2 holds account A2, each with the meter entities of a fetched meter set
\* (or none, its meter fetch having failed), all of them added to the host.
RegistryWith(a, meters) ==
    [ present |-> TRUE,
      accts |-> [x \in {a} |->
                   [ meter_entities |->
                        [some |-> meters.some,
                         ents |-> [m \in meters.codes |-> MESMeterSensor(a, m)]],
                     invoice_entity |-> NoInvoiceEntity ]] ]

MeterChoices ==
    { [some |-> FALSE, codes |-> {}] }
    \cup { [some |-> TRUE, codes |-> c] : c \in { {}, {"M1"}, {"M1", "M2"}, {"M3"} } }

InitSvc ==
    /\ cfg = [accounts |-> NoAccountsCfg, invoices |-> Absent]
    /\ api = [is_logged_in |-> TRUE, age |-> 0]
    /\ remote = Remote0
    /\ cyc = IdleCycle
    /\ \E m1 \in MeterChoices, m2 \in MeterChoices :
          /\ reg = [e \in Entries |->
                      IF e = "e1" THEN RegistryWith("A1", m1) ELSE RegistryWith("A2", m2)]
          /\ host = { AccountKey("A1"), AccountKey("A2") }
                    \cup { MeterKey("A1", m) : m \in m1.codes }
                    \cup { MeterKey("A2", m) : m \in m2.codes }
    /\ updaters \in SUBSET Entries
    /\ call = IdleCall
    /\ setup = NoSetup
    /\ other = IdleCycle
    /\ ind = NoInd

NextSvc ==
    \/ PushIndications
    \/ PushAccepted
    \/ PushRejected
    \/ CalculateIndications
    \/ CalcAccepted
    \/ CalcRejected
    \/ CallReturn

SpecSvc == InitSvc /\ [][NextSvc]_vars

----------------------------------------------------------------------------
(* _get_real_indications on its own *)

MaxTariffs == 2

Values == 0..MaxVal

\* the sequences of length lo..hi over S
SeqsOf(S, lo, hi) == UNION { [1..n -> S] : n \in lo..hi }

\* the dicts {position: value}: their items, positions distinct
MapItems ==
    { p \in SeqsOf((1..DEFAULT_MAX_INDICATIONS) \X Values, 0, DEFAULT_MAX_INDICATIONS) :
        \A i, j \in 1..Len(p) : i # j => p[i][1] # p[j][1] }

Payloads ==
    { SeqPayload(v) : v \in SeqsOf(Values, 1, DEFAULT_MAX_INDICATIONS) }
    \cup { MapPayload(p) : p \in MapItems }

InitInd ==
    /\ cfg = [accounts |-> NoAccountsCfg, invoices |-> Absent]
    /\ api = [is_logged_in |-> TRUE, age |-> 0]
    /\ remote = Remote0
    /\ cyc = IdleCycle
    /\ reg = [e \in Entries |-> NoRegistry]
    /\ host = {}
    /\ updaters = {}
    /\ call = IdleCall
    /\ setup = NoSetup
    /\ other = IdleCycle
    /\ \E n \in 1..MaxTariffs :
       \E l \in [1..n -> Values \cup {None}], s \in [1..n -> Values \cup {None}] :
       \E p \in Payloads, incremental \in BOOLEAN :
          ind = [ pc |-> "called",
                  meter |-> [last_indications |-> l, submitted_indications |-> s],
                  data |-> [indications |-> p, incremental |-> incremental],
                  out |-> SeqPayload(<<>>) ]

ApplyRealIndications ==
    /\ ind.pc = "called"
    /\ ind' = [ind EXCEPT !.pc = "returned",
                          !.out = GetRealIndications(ind.meter, ind.data)]
    /\ UNCHANGED <<cycleVars, reg, host, updaters, call, sideVars>>

NextInd == ApplyRealIndications

SpecInd == InitInd /\ [][NextInd]_vars

----------------------------------------------------------------------------
(* async_setup_entry (lines 433-475) and the cycles its trigger runs *)

\* AfterFirstCycle with the trigger and the services installed whatever
\* the first cycle returned
AfterFirstCycle_AlwaysInstalls(result) ==
    IF result.kind = "false" THEN [result |-> "False", install |-> TRUE]
    ELSE IF result.kind = "triple" THEN [result |-> "True", install |-> TRUE]
    ELSE [result |-> result.kind, install |-> FALSE]

\* lines 456-472: what async_setup_entry returns, and whether it goes on to
\* register the services and the periodic trigger.  An exception of the
\* first cycle that is no MosenergosbytException leaves async_setup_entry
\* as it is; no MosenergosbytException escapes _entity_updater, so
\* PlatformNotReady (line 475) is never raised.
AfterFirstCycle(result) ==
    IF result.kind = "false" THEN [result |-> "False", install |-> FALSE]
    ELSE IF result.kind = "triple"
    THEN IF result.t[1] + result.t[2] + result.t[3] = 0
         THEN [result |-> "True", install |-> FALSE]
         ELSE [result |-> "True", install |-> TRUE]
    ELSE [result |-> result.kind, install |-> FALSE]

\* lines 434-454, up to the first await of the first cycle
SetupEntry ==
    /\ setup.pc = "none"
    /\ cyc.pc = "idle"
    /\ setup' = [setup EXCEPT !.pc = "first_cycle"]
    /\ cyc' = BeginCycle(cyc)
    /\ UNCHANGED <<cfg, api, remote, reg, host, serviceVars, other, ind>>

\* lines 454-475: the first cycle has returned or raised
SetupReturns ==
    /\ setup.pc = "first_cycle"
    /\ cyc.pc = "done"
    /\ LET r == AfterFirstCycle(cyc.result)
       IN /\ setup' = [setup EXCEPT !.pc = "returned",
                                    !.first = cyc.result,
                                    !.result = r.result,
                                    !.services = @ \/ r.install]
          /\ updaters' = IF r.install THEN updaters \cup {cyc.entry} ELSE updaters
    /\ cyc' = Returned(cyc)
    /\ UNCHANGED <<cfg, api, remote, reg, host, call, other, ind>>

\* the trigger installed at lines 465-466 fires
ScheduledCycle ==
    /\ setup.pc = "returned"
    /\ CycleEntry \in updaters
    /\ cyc.pc = "idle"
    /\ cyc' = BeginCycle(cyc)
    /\ UNCHANGED <<cfg, api, remote, reg, host, serviceVars, sideVars, ind>>

\* a scheduled cycle has returned: its result goes to the host's scheduler
ScheduledReturn ==
    /\ setup.pc = "returned"
    /\ cyc.pc = "done"
    /\ setup' = [setup EXCEPT !.lastFailed = cyc.result.kind = "false"]
    /\ cyc' = Returned(cyc)
    /\ UNCHANGED <<cfg, api, remote, reg, host, serviceVars, other, ind>>

\* the provider lists no account
NoAccountsRemote == [Remote0 EXCEPT !.listing = <<>>]

InitSetup ==
    /\ cfg = [accounts |-> NoAccountsCfg, invoices |-> Absent]
    /\ api = [is_logged_in |-> FALSE, age |-> 0]
    /\ remote \in {Remote0, NoAccountsRemote}
    /\ reg = [e \in Entries |-> NoRegistry]
    /\ host = {}
    /\ cyc = IdleCycle
    /\ updaters = {}
    /\ call = IdleCall
    /\ setup = NoSetup
    /\ other = IdleCycle
    /\ ind = NoInd

NextSetup ==
    \/ SetupEntry
    \/ SetupReturns
    \/ ScheduledCycle
    \/ ScheduledReturn
    \/ LogoutOk
    \/ LogoutFail
    \/ LoginOk
    \/ LoginFail
    \/ GetAccountsOk
    \/ GetAccountsFail
    \/ GetMetersOk
    \/ GetMetersFail
    \/ GetInvoiceOk
    \/ GetInvoiceFail
    \/ WaitDone
    \/ Tick

SpecSetup == InitSetup /\ [][NextSetup]_vars

----------------------------------------------------------------------------
(* Two overlapping calls of _entity_updater for one entry: the periodic     *)
(* trigger (lines 465-466) and the refresh a push requests (lines 330-335)  *)
(* start update_call whether or not an earlier call is still suspended.     *)

OtherState == [reg |-> reg[other.entry], host |-> host, cyc |-> other]

OtherCommit(s) ==
    /\ reg' = [reg EXCEPT ![other.entry] = s.reg]
    /\ host' = s.host
    /\ other' = s.cyc

\* lines 81-94 of the second call, started while the first is suspended;
\* the session is authenticated and fresh, so it goes on to the listing
OtherStart ==
    /\ setup.pc = "returned"
    /\ CycleEntry \in updaters
    /\ other.pc = "idle"
    /\ cyc.pc \notin {"idle", "done"}
    /\ api.is_logged_in /\ ~Expired
    /\ other' = BeginCycle(other)
    /\ UNCHANGED <<cfg, api, remote, reg, host, cyc, serviceVars, setup, ind>>

\* lines 109-126 of the second call, the fetch succeeding
OtherGetAccounts ==
    /\ other.pc = "get_accounts"
    /\ OtherCommit(AccountsFetched(OtherState, remote.listing))
    /\ UNCHANGED <<cfg, api, remote, cyc, serviceVars, setup, ind>>

\* lines 140-188 of the second call, the fetch succeeding
OtherGetMeters ==
    /\ other.pc = "get_meters"
    /\ OtherCommit(MeterFetched(OtherState, remote.meters[CurAccount(other)]))
    /\ UNCHANGED <<cfg, api, remote, cyc, serviceVars, setup, ind>>

\* lines 186-205 of the second call, the fetch succeeding
OtherGetInvoice ==
    /\ other.pc = "get_last_invoice"
    /\ OtherCommit(InvoiceFetched(OtherState, remote.invoice[CurAccount(other)]))
    /\ UNCHANGED <<cfg, api, remote, cyc, serviceVars, setup, ind>>

\* lines 204-223 of the second call
OtherWaitDone ==
    /\ other.pc = "wait"
    /\ OtherCommit(AfterWait(OtherState))
    /\ UNCHANGED <<cfg, api, remote, cyc, serviceVars, setup, ind>>

OtherReturn ==
    /\ other.pc = "done"
    /\ other' = Returned(other)
    /\ UNCHANGED <<cfg, api, remote, reg, host, cyc, serviceVars, setup, ind>>

\* the provider starts to list a second account
AccountAppears ==
    /\ setup.pc = "returned"
    /\ remote.listing = <<"A1">>
    /\ remote' = [remote EXCEPT !.listing = <<"A1", "A2">>]
    /\ UNCHANGED <<cfg, api, reg, host, cyc, serviceVars, sideVars, ind>>

InitConc ==
    /\ cfg = [accounts |-> NoAccountsCfg, invoices |-> Absent]
    /\ api = [is_logged_in |-> FALSE, age |-> 0]
    /\ remote = [Remote0 EXCEPT !.listing = <<"A1">>]
    /\ reg = [e \in Entries |-> NoRegistry]
    /\ host = {}
    /\ cyc = IdleCycle
    /\ updaters = {}
    /\ call = IdleCall
    /\ setup = NoSetup
    /\ other = IdleCycle
    /\ ind = NoInd

NextConc ==
    \/ SetupEntry
    \/ SetupReturns
    \/ ScheduledCycle
    \/ ScheduledReturn
    \/ LoginOk
    \/ GetAccountsOk
    \/ GetMetersOk
    \/ GetMetersFail
    \/ GetInvoiceOk
    \/ WaitDone
    \/ OtherStart
    \/ OtherGetAccounts
    \/ OtherGetMeters
    \/ OtherGetInvoice
    \/ OtherWaitDone
    \/ OtherReturn
    \/ AccountAppears

SpecConc == InitConc /\ [][NextConc]_vars

----------------------------------------------------------------------------
(* The join of lines 204-205, task by task *)

\* asyncio.wait with return_when = FIRST_COMPLETED
AllFinished_FirstCompleted(c) == c.finished # {}

\* asyncio.wait(tasks) returns when every task has finished (its default,
\* return_when = ALL_COMPLETED), whether it returned or raised
AllFinished(c) == c.finished = 1..Len(c.tasks)

Pending(c) == (1..Len(c.tasks)) \ c.finished

\* a first refresh that awaits the provider: MESAccountSensor.async_update
\* (lines 545-549); those of the meter and invoice entities only read the
\* objects already fetched
AwaitsProvider(t) == t.kind = "update" /\ t.key.k = "account"

\* one task runs to its end
TaskFinish ==
    /\ cyc.pc = "wait"
    /\ \E i \in Pending(cyc) :
          Commit([RunTask(State, cyc.tasks[i]) EXCEPT !.cyc.finished = @ \cup {i}])
    /\ UNCHANGED <<cfg, api, remote, serviceVars, sideVars, ind>>

\* the first refresh of an account entity fails: the provider's exception
\* is caught at line 551 and async_update returns False (line 557)
TaskFail ==
    /\ cyc.pc = "wait"
    /\ \E i \in Pending(cyc) :
          /\ AwaitsProvider(cyc.tasks[i])
          /\ cyc' = [cyc EXCEPT !.finished = @ \cup {i},
                                !.refreshFailed = @ \cup {cyc.tasks[i].key}]
    /\ UNCHANGED <<cfg, api, remote, reg, host, serviceVars, sideVars, ind>>

\* asyncio.wait returns: lines 207-223
JoinDone ==
    /\ cyc.pc = "wait"
    /\ AllFinished(cyc)
    /\ Commit(Finalize(State))
    /\ UNCHANGED <<cfg, api, remote, serviceVars, sideVars, ind>>

\* the provider reports another meter set for account A1, between two cycles
MetersChange ==
    /\ cyc.pc = "idle"
    /\ \E ms \in MeterSets("A1") \ {remote.meters["A1"]} :
          remote' = [remote EXCEPT !.meters["A1"] = ms]
    /\ cyc' = [cyc EXCEPT !.prevDone = FALSE, !.prevClean = FALSE]
    /\ UNCHANGED <<cfg, api, reg, host, serviceVars, sideVars, ind>>

InitJoin ==
    /\ cfg \in Configs
    /\ api = [is_logged_in |-> FALSE, age |-> 0]
    /\ remote = [Remote0 EXCEPT !.listing = <<"A1">>]
    /\ reg = [e \in Entries |-> NoRegistry]
    /\ host = {}
    /\ cyc = IdleCycle
    /\ updaters = {}
    /\ call = IdleCall
    /\ setup = NoSetup
    /\ other = IdleCycle
    /\ ind = NoInd

NextJoin ==
    \/ StartCycle
    \/ Return
    \/ LoginOk
    \/ LoginFail
    \/ GetAccountsOk
    \/ GetAccountsFail
    \/ GetMetersOk
    \/ GetMetersFail
    \/ GetInvoiceOk
    \/ GetInvoiceFail
    \/ TaskFinish
    \/ TaskFail
    \/ JoinDone
    \/ MetersChange

\* every task finishes, and asyncio.wait then returns
SpecJoin ==
    /\ InitJoin
    /\ [][NextJoin]_vars
    /\ WF_vars(TaskFinish \/ TaskFail)
    /\ WF_vars(JoinDone)

----------------------------------------------------------------------------

Init ==
    /\ cfg \in Configs
    /\ api = [is_logged_in |-> FALSE, age |-> 0]
    /\ remote = Remote0
    /\ reg = [e \in Entries |-> NoRegistry]
    /\ host = {}
    /\ cyc = IdleCycle
    /\ updaters = {}
    /\ call = IdleCall
    /\ setup = NoSetup
    /\ other = IdleCycle
    /\ ind = NoInd

Next ==
    \/ StartCycle
    \/ Return
    \/ LogoutOk
    \/ LogoutFail
    \/ LoginOk
    \/ LoginFail
    \/ GetAccountsOk
    \/ GetAccountsFail
    \/ GetMetersOk
    \/ GetMetersFail
    \/ GetInvoiceOk
    \/ GetInvoiceFail
    \/ WaitDone
    \/ Tick
    \/ RemoteChange

Spec == Init /\ [][Next]_vars

----------------------------------------------------------------------------
(* Vocabulary of the properties *)

Registry == reg[CycleEntry]

Completed == cyc.pc = "done" /\ cyc.result.kind = "triple"

RaisedOut == cyc.pc = "done" /\ cyc.result.kind \in {"KeyError", "ValueError"}

\* position of account a in the listing of the running cycle
PosOf(a) == CHOOSE i \in 1..Len(cyc.accounts) : cyc.accounts[i] = a

Listed == { cyc.accounts[i] : i \in 1..Len(cyc.accounts) }

\* the loop has left account a behind
Passed(a) ==
    \/ cyc.idx > PosOf(a)
    \/ cyc.pc = "wait"
    \/ Completed

MeterCodesOf(ent) == IF ent.meter_entities.some THEN DOMAIN ent.meter_entities.ents ELSE {}

UpdateTasksFor(key) ==
    { i \in 1..Len(cyc.tasks) : cyc.tasks[i] = Task("update", key) }

----------------------------------------------------------------------------
\* C1 (as stated): once the meter fetch of account X has failed in a cycle,
\* the cycle goes on with the invoice handling of X (its invoice is fetched
\* unless the invoice filter skips X), and the call ends by returning its
\* triple, every account after X in the listing having had its meters
\* fetched and its invoice handled.
C1_Claim ==
    \A x \in cyc.mtrFailed :
        /\ x \in Listed
        /\ cyc.idx = PosOf(x) =>
              \/ cyc.pc = "get_last_invoice" /\ ~InvoiceSkipped(x)
              \/ cyc.pc = "wait"
              \/ Completed
        /\ Passed(x) => (x \in cyc.invTried <=> ~InvoiceSkipped(x))
        /\ cyc.pc = "done" =>
              /\ Completed
              /\ \A y \in Listed :
                    PosOf(y) > PosOf(x) =>
                        /\ y \in cyc.mtrTried
                        /\ y \in cyc.invTried <=> ~InvoiceSkipped(y)

\* What holds of a failed meter fetch: the same, except that the call may
\* end by the KeyError / ValueError of the accounts filter (lines 143-146),
\* raised while handling an account whose own meter fetch succeeded.
MeterFailureIsolated ==
    \A x \in cyc.mtrFailed :
        /\ x \in Listed
        /\ cyc.idx = PosOf(x) =>
              \/ cyc.pc = "get_last_invoice" /\ ~InvoiceSkipped(x)
              \/ cyc.pc = "wait"
              \/ Completed
        /\ Passed(x) => (x \in cyc.invTried <=> ~InvoiceSkipped(x))
        /\ cyc.pc = "done" => cyc.result.kind # "false"
        /\ RaisedOut => CurAccount(cyc) \notin cyc.mtrFailed
        /\ Completed =>
              \A y \in Listed :
                  PosOf(y) > PosOf(x) =>
                      /\ y \in cyc.mtrTried
                      /\ y \in cyc.invTried <=> ~InvoiceSkipped(y)

MeterFailureIsolatedReached ==
    /\ Completed
    /\ cyc.accounts = <<"A1", "A2">>
    /\ "A1" \in cyc.mtrFailed
    /\ "A1" \in cyc.invTried
    /\ "A2" \in cyc.mtrHandled
    /\ "A2" \in cyc.invTried

----------------------------------------------------------------------------
\* C2: a cycle that returns the failure result (session or listing failure)
\* fetched no meters and no invoice, created, retired, replaced and
\* republished nothing, scheduled no task, gave the host nothing, and left
\* the registry and the host's entities as they were when it started.
C2_FailedCycleTouchesNothing ==
    (cyc.pc = "done" /\ cyc.result.kind = "false") =>
        /\ cyc.mtrTried = {} /\ cyc.invTried = {}
        /\ cyc.created = {} /\ cyc.retired = {}
        /\ cyc.replaced = {} /\ cyc.republished = {}
        /\ cyc.tasks = <<>> /\ cyc.added = <<>>
        /\ cyc.new_accounts = EmptyMap
        /\ Registry = cyc.regAtStart
        /\ host = cyc.hostAtStart

C2_Witness ==
    /\ cyc.pc = "done" /\ cyc.result.kind = "false"
    /\ cyc.calls = <<"logout", "login">>
    /\ DOMAIN Registry.accts = {"A1", "A2"}
    /\ host # {}

----------------------------------------------------------------------------
\* what C3 promises of the second of two cycles on unchanged provider data
SecondCycleIdle ==
    /\ cyc.result.t = <<0, 0, 0>>
    /\ cyc.added = <<>>
    /\ cyc.created = {}
    /\ cyc.retired = {}
    /\ host = cyc.hostAtStart
    /\ DOMAIN Registry.accts = DOMAIN cyc.regAtStart.accts
    /\ \A a \in DOMAIN Registry.accts :
          /\ Registry.accts[a].meter_entities.some = cyc.regAtStart.accts[a].meter_entities.some
          /\ MeterCodesOf(Registry.accts[a]) = MeterCodesOf(cyc.regAtStart.accts[a])
          /\ Registry.accts[a].invoice_entity.some = cyc.regAtStart.accts[a].invoice_entity.some

\* C3 (as stated): a cycle that completes after a completed cycle, the
\* provider's data unchanged, returns (0, 0, 0), registers and retires
\* nothing and keeps every entity object.
C3_Claim == (Completed /\ cyc.prevDone) => SecondCycleIdle

\* C3 (amended): the same, when no meter or invoice fetch of the first cycle
\* failed.
C3_Idempotent == (Completed /\ cyc.prevClean) => SecondCycleIdle

C3_Witness ==
    /\ Completed /\ cyc.prevClean
    /\ cyc.accounts = <<"A1", "A2">>
    /\ cyc.mtrHandled = {"A1", "A2"}
    /\ cyc.invTried = {"A1", "A2"} /\ cyc.invFailed = {}
    /\ Registry.accts["A1"].invoice_entity.some
    /\ MeterCodesOf(Registry.accts["A1"]) = {"M1", "M2"}

----------------------------------------------------------------------------
\* C4: meter diff.  For an account that was registered with the meter codes
\* R when the cycle started and whose fetched meters F were diffed in the
\* cycle: the mapping holds exactly F; each code of R \ F had its removal
\* requested and is gone; each code of R \cap F kept its entity (none was
\* constructed), had its backing meter replaced and a forced republish
\* scheduled; each code of F \ R got exactly one new entity.
C4_MeterDiff ==
    \A a \in cyc.mtrHandled \cap DOMAIN cyc.regAtStart.accts :
        cyc.regAtStart.accts[a].meter_entities.some =>
            LET R   == MeterCodesOf(cyc.regAtStart.accts[a])
                F   == remote.meters[a]
                now == Registry.accts[a]
            IN /\ now.meter_entities.some
               /\ MeterCodesOf(now) = F
               /\ \A m \in R \ F :
                     /\ MeterKey(a, m) \in cyc.retired
                     /\ Task("remove", MeterKey(a, m)) \in
                            { cyc.tasks[i] : i \in 1..Len(cyc.tasks) }
                     /\ MeterKey(a, m) \notin cyc.created
               /\ \A m \in R \cap F :
                     /\ MeterKey(a, m) \notin cyc.created
                     /\ MeterKey(a, m) \notin cyc.retired
                     /\ MeterKey(a, m) \in cyc.replaced
                     /\ MeterKey(a, m) \in cyc.republished
                     /\ UpdateTasksFor(MeterKey(a, m)) = {}
               /\ \A m \in F \ R :
                     /\ MeterKey(a, m) \in cyc.created
                     /\ MeterKey(a, m) \notin cyc.retired
                     /\ Cardinality(UpdateTasksFor(MeterKey(a, m))) = 1
               /\ \A m \in MeterCodes \ (R \cup F) :
                     /\ MeterKey(a, m) \notin cyc.created
                     /\ MeterKey(a, m) \notin cyc.retired

C4_Witness ==
    /\ Completed
    /\ "A1" \in cyc.mtrHandled
    /\ "A1" \in DOMAIN cyc.regAtStart.accts
    /\ MeterCodesOf(cyc.regAtStart.accts["A1"]) = {"M1", "M2"}
    /\ MeterCodesOf(Registry.accts["A1"]) = {"M2", "M3"}
    /\ MeterKey("A1", "M1") \notin host
    /\ MeterKey("A1", "M3") \in host

----------------------------------------------------------------------------
\* C5: after a completed cycle the invoice entity of every registered
\* account shows (invoice_id of its published attributes) the id of the
\* invoice fetched last, its backing invoice.
C5_Claim ==
    Completed =>
        \A a \in DOMAIN Registry.accts :
            Registry.accts[a].invoice_entity.some =>
                Registry.accts[a].invoice_entity.shown =
                    Registry.accts[a].invoice_entity.invoice_id

----------------------------------------------------------------------------
\* C6: three-state invoice filter.  Configured false: no invoice is ever
\* fetched and no invoice entity exists; configured as a list: invoices are
\* fetched only for the listed account codes; and a completed cycle fetched
\* the invoice of every account it listed that the configuration admits.
InvoiceAdmitted(a) ==
    CASE cfg.invoices.kind = "absent" -> TRUE
      [] cfg.invoices.kind = "bool"   -> cfg.invoices.b
      [] cfg.invoices.kind = "list"   -> a \in cfg.invoices.l

C6_Claim ==
    /\ \A a \in cyc.invTried : InvoiceAdmitted(a)
    /\ \A a \in DOMAIN Registry.accts :
          Registry.accts[a].invoice_entity.some => InvoiceAdmitted(a)
    /\ Completed => \A a \in Listed : InvoiceAdmitted(a) => a \in cyc.invTried

----------------------------------------------------------------------------
\* C7: meter allow-list.  For an account with a configured filter value
\* whose meters were fetched, the meters considered are all the fetched ones
\* (value true) or the fetched ones whose code is in the list, and the call
\* does not end by an exception.
C7_Claim ==
    (cfg.accounts.present /\ cyc.pc \notin {"idle"}) =>
        \A a \in (cyc.mtrTried \ cyc.mtrFailed) \cap DOMAIN cfg.accounts.map :
            LET f == cfg.accounts.map[a]
            IN /\ ~RaisedOut
               /\ a \in cyc.mtrHandled
               /\ cyc.considered[a] =
                     IF f.kind = "bool" /\ f.b THEN remote.meters[a]
                     ELSE remote.meters[a] \cap f.l

----------------------------------------------------------------------------
\* the base the claim adds to the value of position i: the submitted
\* indication when present, else the last one when present, else 0
Base(meter, i) ==
    IF i <= Len(meter.submitted_indications) /\ meter.submitted_indications[i] # None
    THEN meter.submitted_indications[i]
    ELSE IF i <= Len(meter.last_indications) /\ meter.last_indications[i] # None
    THEN meter.last_indications[i]
    ELSE 0

\* C8: effective indications.  Not incremental: the payload unchanged.
\* Incremental: one value for each supplied position, the supplied value
\* plus the base of that position, for a list (position = index) and for a
\* mapping position -> value.
C8_Claim ==
    ind.pc = "returned" =>
        LET raw == ind.data.indications
        IN IF ~ind.data.incremental THEN ind.out = raw
           ELSE /\ Len(ind.out.items) = Len(raw.items)
                /\ \A k \in 1..Len(raw.items) :
                      ind.out.items[k] =
                          IF raw.shape = "seq"
                          THEN raw.items[k] + Base(ind.meter, k)
                          ELSE raw.items[k][2] + Base(ind.meter, raw.items[k][1])

----------------------------------------------------------------------------
\* C9: a push the provider accepted fired exactly one push-result event
\* and, when the entry that holds the resolved meter has a refresh handle,
\* requested one refresh, of that entry; whatever the notification setting.
C9_Claim ==
    (call.pc = "done" /\ call.op = "push" /\ call.accepted) =>
        /\ Len(call.events) = 1
        /\ call.events[1].type = "push"
        /\ call.target.a \in DOMAIN reg[call.entry].accts
        /\ call.refreshes = IF call.entry \in updaters THEN <<call.entry>> ELSE <<>>

----------------------------------------------------------------------------
\* C10: a push or calculate call the provider rejected (value count or any
\* other provider error) fired no event, dispatched no notification,
\* requested no refresh and left the registry and the host's entities as
\* they were.
C10_RejectedCallNoEffects ==
    (call.pc = "done" /\ call.outcome \in {"IndicationsCountException",
                                           "MosenergosbytException"}) =>
        /\ Len(call.sent) = 1
        /\ call.events = <<>>
        /\ call.notes = 0
        /\ call.refreshes = <<>>
        /\ reg = call.regAtCall
        /\ host = call.hostAtCall

C10_Witness ==
    /\ call.pc = "done"
    /\ call.op = "push"
    /\ call.outcome = "IndicationsCountException"
    /\ call.entry = "e2" /\ updaters = Entries
    /\ call.data.notification = NotifBool(TRUE)
    /\ ~call.accepted

----------------------------------------------------------------------------
\* the registered meter entities the identifier of the running call matches
Matching == { x \in RegisteredMeters : Checker(call.data, x) }

\* C11: a call that ended because no registered meter matched, or because
\* the resolved meter lacks the capability, sent nothing to the provider,
\* fired no event, dispatched no notification and requested no refresh;
\* and whenever some registered meter entity matches the identifier the
\* resolution succeeds: the call does not end as not-found nor by an
\* exception of the scan.
C11_Claim ==
    call.pc = "done" =>
        /\ call.outcome \in {"not_found", "unsupported", "AttributeError"} =>
              /\ call.sent = <<>>
              /\ call.events = <<>>
              /\ call.notes = 0
              /\ call.refreshes = <<>>
        /\ call.outcome = "not_found" => Matching = {}
        /\ Matching # {} => call.outcome \notin {"not_found", "AttributeError"}

----------------------------------------------------------------------------
\* C12: a calculate call requests no refresh and leaves the registry, the
\* meters' backing data and the host's entities as they were, whatever its
\* outcome; when the provider returned the calculation, exactly one
\* calculation-result event was fired.
C12_CalculateReadOnly ==
    (call.op = "calculate" /\ call.pc \in {"awaiting", "done"}) =>
        /\ call.refreshes = <<>>
        /\ reg = call.regAtCall
        /\ host = call.hostAtCall
        /\ call.accepted =>
              /\ Len(call.events) = 1
              /\ call.events[1].type = "calculate"
        /\ ~call.accepted => call.events = <<>>

C12_Witness ==
    /\ call.op = "calculate" /\ call.pc = "done"
    /\ call.outcome = "ok" /\ call.accepted
    /\ call.entry \in updaters
    /\ call.notes = 1
    /\ Len(call.events) = 1

----------------------------------------------------------------------------
\* the session calls the guard issued are exactly `expected`, or the cycle
\* returned the failure result at the call that failed
SessionCalls(expected) ==
    \/ cyc.calls = expected
    \/ /\ cyc.pc = "done" /\ cyc.result.kind = "false"
       /\ Len(cyc.calls) <= Len(expected)
       /\ cyc.calls = SubSeq(expected, 1, Len(cyc.calls))

\* C13: session guard.  When a cycle has passed the guard and awaits the
\* listing, or has returned the failure result: one login when the
\* session was not authenticated at its start; a logout then a login when it
\* was authenticated and its age exceeded the timeout; neither when it was
\* authenticated and its age did not exceed the timeout (age equal to the
\* timeout included).
C13_Claim ==
    (cyc.pc = "get_accounts" \/ (cyc.pc = "done" /\ cyc.result.kind = "false")) =>
        IF ~cyc.apiAtStart.is_logged_in THEN SessionCalls(<<"login">>)
        ELSE IF cyc.apiAtStart.age > LoginTimeout
        THEN SessionCalls(<<"logout", "login">>)
        ELSE cyc.calls = <<>>

----------------------------------------------------------------------------
\* C14: when the first cycle, run by async_setup_entry, returned the failure
\* result, the failure is passed on to the caller of the setup (it returns
\* False) and neither the periodic trigger nor the services are installed;
\* when a scheduled cycle returns the failure result, the trigger stays
\* installed, the registry and the host's entities are as they were when
\* the cycle started, and the trigger can fire the next cycle.
C14_FailurePolicy ==
    /\ (setup.pc = "returned" /\ setup.first.kind = "false") =>
          /\ setup.result = "False"
          /\ CycleEntry \notin updaters
          /\ ~setup.services
          /\ cyc.pc = "idle"
    /\ (setup.pc = "returned" /\ cyc.pc = "done" /\ cyc.result.kind = "false") =>
          /\ CycleEntry \in updaters
          /\ setup.services
          /\ setup.result = "True"
          /\ Registry = cyc.regAtStart
          /\ host = cyc.hostAtStart
    /\ (setup.pc = "returned" /\ setup.lastFailed /\ cyc.pc = "idle") =>
          /\ CycleEntry \in updaters
          /\ ENABLED ScheduledCycle

C14_Witness ==
    /\ setup.pc = "returned"
    /\ setup.lastFailed
    /\ Completed
    /\ cyc.calls = <<"logout", "login">>
    /\ CycleEntry \in updaters

----------------------------------------------------------------------------
\* C20: whenever async_setup_entry has returned True, the periodic trigger
\* of the entry is installed and the push / calculate services are
\* registered, also when the first cycle found nothing.
C20_Claim ==
    (setup.pc = "returned" /\ setup.result = "True") =>
        /\ CycleEntry \in updaters
        /\ setup.services

----------------------------------------------------------------------------
\* C15: whatever the interleaving of the calls of _entity_updater for one
\* entry, no call gives the host an entity for an account code or a meter
\* code for which the host already holds a live entity.
C15_Claim ==
    /\ cyc.dup = {}
    /\ other.dup = {}

\* One call at a time gives the host no second entity for a code.
NoDuplicateAlone == cyc.dup = {}

----------------------------------------------------------------------------
\* C16: entity lifecycle.  After a completed cycle every listed account has
\* an account entity, constructed by the cycle only if the registry had
\* none for its code when the cycle started; and the registry and the host
\* hold no account entity (nor meter or invoice entity of it) for a code
\* the listing of the cycle does not contain.
C16_Claim ==
    Completed =>
        /\ \A a \in Listed :
              /\ a \in DOMAIN Registry.accts
              /\ AccountKey(a) \in cyc.created <=> a \notin DOMAIN cyc.regAtStart.accts
        /\ \A a \in AccountCodes \ Listed :
              /\ a \notin DOMAIN Registry.accts
              /\ \A k \in host : k.a # a

----------------------------------------------------------------------------
\* the entities the running cycle has given to the host
Exposed == UNION { cyc.added[i] : i \in 1..Len(cyc.added) }

\* C17: host-exposure ordering.  While a cycle waits at the join it has
\* given nothing to the host; and an entity it gives to the host is a new
\* entity whose first refresh has finished, and has not failed.
C17_Claim ==
    /\ cyc.pc \in {"get_meters", "get_last_invoice", "wait"} =>
          /\ cyc.added = <<>>
          /\ host \subseteq cyc.hostAtStart
    /\ Completed =>
          \A k \in Exposed :
              /\ k \in cyc.created
              /\ \E i \in cyc.finished : cyc.tasks[i] = Task("update", k)
              /\ k \notin cyc.refreshFailed

----------------------------------------------------------------------------
\* what C18 says of every state
JoinSafety ==
    /\ cyc.pc = "wait" =>
          /\ cyc.added = <<>>
          /\ host \subseteq cyc.hostAtStart
          /\ cyc.result = NoResult
    /\ Completed =>
          /\ cyc.finished = 1..Len(cyc.tasks)
          /\ \A i \in 1..Len(cyc.tasks) :
                cyc.tasks[i].kind = "remove" => cyc.tasks[i].key \notin host

\* C18: barrier join.  A cycle that passed the listing gives nothing to the
\* host and does not return before every task it scheduled has finished; a
\* failed task leaves the others to finish and the cycle to return its
\* triple; and, every task finishing, a cycle waiting at the join
\* eventually returns its triple.
C18_BarrierJoin == []JoinSafety /\ ((cyc.pc = "wait") ~> Completed)

C18_Witness ==
    /\ Completed
    /\ AccountKey("A1") \in cyc.refreshFailed
    /\ Len(cyc.tasks) = 4
    /\ cyc.finished = 1..4
    /\ Len(cyc.added) = 3
    /\ cyc.result.t = <<1, 2, 1>>

----------------------------------------------------------------------------
\* the entities of one kind the running cycle constructed
CreatedOf(kind) == { k \in cyc.created : k.k = kind }

\* C19: cycle summary and registration.  The triple of a completed cycle
\* counts the account, meter and invoice entities the cycle constructed,
\* and the cycle gave the host exactly these entities, each once, in the
\* batches accounts, meters, invoices; also when two accounts of the
\* listing report the same meter code.
C19_Claim ==
    Completed =>
        /\ cyc.result.t = << Cardinality(CreatedOf("account")),
                             Cardinality(CreatedOf("meter")),
                             Cardinality(CreatedOf("invoice")) >>
        /\ cyc.added = SelectSeq(<< CreatedOf("account"), CreatedOf("meter"),
                                    CreatedOf("invoice") >>,
                                 LAMBDA b : b # {})
        /\ cyc.created \subseteq host

----------------------------------------------------------------------------
\* the search a call makes for the meter with code `code`
ByMeterCode(code) ==
    [by |-> "meter_code", id |-> NoKey, code |-> code,
     indications |-> SeqPayload(<<1, 0>>), incremental |-> FALSE,
     ignore_period |-> FALSE, notification |-> NotifBool(FALSE)]

\* C21: initialized meter mappings.  Every account entity held in the
\* registry has a meter mapping (possibly empty, never absent), whatever
\* cycles ran before and also when the meter fetch of a newly sighted account
\* failed; so the search of push/calculate for a meter ends in a match or in
\* the not-found outcome, never in an unhandled failure.
C21_Claim ==
    /\ \A e \in Entries : \A a \in DOMAIN reg[e].accts :
          reg[e].accts[a].meter_entities.some
    /\ \A code \in MeterCodes : \A found \in FindMeterEntity(ByMeterCode(code)) :
          found.kind \in {"found", "none"}

----------------------------------------------------------------------------
\* C22: no supplied value dropped.  In incremental mode the provider is
\* handed as many effective values as the caller supplied, also when the
\* meter's last_indications or submitted_indications is the shorter
\* sequence.
C22_Claim ==
    (ind.pc = "returned" /\ ind.data.incremental) =>
        Len(ind.out.items) = Len(ind.data.indications.items)

----------------------------------------------------------------------------
(* Service calls while a cycle runs: the handlers of async_register_services
   and _entity_updater are coroutines of one event loop, so a call may run
   between any two awaits of a cycle, and a cycle between the two halves of
   a call *)

\* async_push_indications called with meter_code
PushByCode ==
    /\ call.pc = "idle"
    /\ \E code \in MeterCodes :
       \E found \in FindMeterEntity(ByMeterCode(code)) :
          call' = BeginCall("push", ByMeterCode(code), found)
    /\ UNCHANGED <<cycleVars, reg, host, updaters, sideVars, ind>>

\* async_calculate_indications called with meter_code
CalculateByCode ==
    /\ call.pc = "idle"
    /\ \E code \in MeterCodes :
       \E found \in FindMeterEntity(ByMeterCode(code)) :
          call' = BeginCall("calculate", ByMeterCode(code), found)
    /\ UNCHANGED <<cycleVars, reg, host, updaters, sideVars, ind>>

InitLive ==
    /\ cfg = [accounts |-> NoAccountsCfg, invoices |-> Absent]
    /\ api = [is_logged_in |-> FALSE, age |-> 0]
    /\ remote = [Remote0 EXCEPT !.listing = <<"A1">>]
    /\ reg = [e \in Entries |-> NoRegistry]
    /\ host = {}
    /\ cyc = IdleCycle
    /\ updaters = {CycleEntry}
    /\ call = IdleCall
    /\ setup = NoSetup
    /\ other = IdleCycle
    /\ ind = NoInd

NextLive ==
    \/ StartCycle
    \/ Return
    \/ LoginOk
    \/ GetAccountsOk
    \/ GetMetersOk
    \/ GetMetersFail
    \/ GetInvoiceOk
    \/ WaitDone
    \/ MetersChange
    \/ PushByCode
    \/ CalculateByCode
    \/ PushAccepted
    \/ PushRejected
    \/ CalcAccepted
    \/ CalcRejected
    \/ CallReturn

SpecLive == InitLive /\ [][NextLive]_vars

\* the meter entities a call by meter code can resolve now
Resolvable ==
    { MeterKey(found.x.a, found.x.m) :
        found \in { f \in UNION { FindMeterEntity(ByMeterCode(code)) : code \in MeterCodes } :
                      f.kind = "found" } }

\* C23: calls against a running cycle.  However a push/calculate call
\* interleaves with a cycle, the meter entity it resolves has been registered
\* with the host, so each event it fires carries a host entity id; a meter
\* entity whose cycle has not yet passed its barrier and the host
\* registration cannot be resolved.
C23_Claim ==
    /\ (call.pc \in {"awaiting", "done"} /\ call.target # NoKey) =>
           call.target \in call.hostAtCall
    /\ \A i \in 1..Len(call.events) :
           call.events[i].entity_id # NoKey \/ call.target \in call.hostAtCall
    /\ Resolvable \subseteq host

\* a call fired an event without entity id for a meter entity that a cycle
\* still under way had created
NullIdEvent ==
    /\ call.pc = "done" /\ call.outcome = "ok"
    /\ call.events # <<>>
    /\ call.events[1].entity_id = NoKey
    /\ call.target \in cyc.created
    /\ cyc.pc \in {"get_last_invoice", "wait"}
    /\ "A1" \in DOMAIN cyc.regAtStart.accts
    /\ cyc.regAtStart.accts["A1"].meter_entities.some

----------------------------------------------------------------------------
\* the meter entities of account a among the entity keys ks
MetersOfAccount(ks, a) == { k \in ks : k.k = "meter" /\ k.a = a }

\* C24: a failed meter fetch is a frame.  When the meter fetch fails for an
\* account the registry already held, the cycle leaves that account's meter
\* mapping as it was: no meter entity retired, none created, no backing
\* meter replaced, and its meters resolvable by push/calculate as before.
C24_FailedFetchKeepsMeters ==
    \A a \in cyc.mtrFailed \cap DOMAIN cyc.regAtStart.accts :
        /\ a \in DOMAIN Registry.accts
        /\ Registry.accts[a].meter_entities = cyc.regAtStart.accts[a].meter_entities
        /\ MetersOfAccount(cyc.retired \cup cyc.created \cup cyc.replaced, a) = {}
        /\ MetersOfAccount(host, a) = MetersOfAccount(cyc.hostAtStart, a)
        /\ \A m \in DOMAIN cyc.regAtStart.accts[a].meter_entities.ents :
              LET x == [entry |-> CycleEntry, a |-> a, m |-> m]
              IN /\ x \in RegisteredMeters
                 /\ MeterOf(x) = cyc.regAtStart.accts[a].meter_entities.ents[m].meter

C24_Witness ==
    /\ Completed
    /\ "A1" \in cyc.mtrFailed
    /\ "A1" \in DOMAIN cyc.regAtStart.accts
    /\ cyc.regAtStart.accts["A1"].meter_entities.some
    /\ DOMAIN cyc.regAtStart.accts["A1"].meter_entities.ents = {"M1", "M2"}
    /\ remote.meters["A1"] = {"M2", "M3"}
    /\ DOMAIN Registry.accts["A1"].meter_entities.ents = {"M1", "M2"}
    /\ MetersOfAccount(host, "A1") = {MeterKey("A1", "M1"), MeterKey("A1", "M2")}

=============================================================================
